---- MODULE Spec2Model ----
(***************************************************************************)
(* Model of the tlsnpy Python bindings (src/src/lib.rs):                   *)
(*   PyProver - the prover session slot `inner: Option<ProverState>` and   *)
(*              the four methods reset / connect / start_notarize /        *)
(*              finalize_notarize;                                         *)
(*   PyNotary - start / stop of the background notary server, the oneshot  *)
(*              shutdown channel and the two tokio tasks start() spawns.   *)
(* The notarization engine, DNS and TCP are external: each of their calls  *)
(* is a nondeterministic outcome (success, or one of the failure points    *)
(* the code propagates with `?`).                                          *)
(***************************************************************************)
EXTENDS Integers, Sequences, FiniteSets, TLC

\* ------------------------------------------------------------------ bounds
\* number of PyProver method calls explored
MaxCalls == 5
\* number of PyNotary.start() calls explored (one channel and task pair each)
MaxStarts == 2
\* number of PyNotary method calls (start and stop together) explored
MaxNotaryCalls == 4

VARIABLES
    inner,          \* PyProver.inner: "None" or the phase of the held session
    log,            \* one record per completed PyProver method call
    shutdown_tx,    \* PyNotary.shutdown_tx: 0 (None) or the id of the channel
    server_handle,  \* PyNotary.server_handle: 0 (None) or the id of the task
    chan,           \* per start(): state of its oneshot channel
    sends,          \* per start(): number of tx.send(()) calls on its channel
    sup,            \* per start(): the supervising task (rt.spawn, l.227)
    srv,            \* per start(): the server task (tokio::spawn, l.235)
    nstarts,        \* number of start() calls made
    npc,            \* position of the calling thread inside PyNotary
    waiting,        \* the task stop() is blocked on (0: none)
    nlog            \* one record per returned PyNotary method call

proverVars == <<inner, log>>
notaryVars == <<shutdown_tx, server_handle, chan, sends, sup, srv, nstarts,
                npc, waiting, nlog>>
vars == <<inner, log, shutdown_tx, server_handle, chan, sends, sup, srv,
          nstarts, npc, waiting, nlog>>

\* ------------------------------------------------------------- PyProver
\* Option<ProverState>: None, or Some of the three enum variants
ProverState == {"Setup", "Closed", "Notarize"}
Slot == {"None"} \cup ProverState

\* PyResult: Ok is the empty tuple, Err(PyRuntimeError(msg)) is the message,
\* split where format!() splices the underlying cause in.
Ok == <<>>
IsErr(r) == r # Ok
\* what a caller can tell errors apart by: every error is a PyRuntimeError,
\* so the kind is the fixed text the method puts in front of the cause.
ErrorKind(r) == IF r = Ok THEN "Ok" ELSE r[1]

NoSetup == <<"No setup prover available">>
NoClosed == <<"No closed prover available">>
NoNotarize == <<"No notarize prover available">>
WrongState == {NoSetup, NoClosed, NoNotarize}

\* The calls a method makes to the engine, the resolver and the network, in
\* source order.  An outcome is "ok" or the name of the call whose `?` fired;
\* Run is the trace of the calls made, each with how it ended.
IndexOf(names, o) == CHOOSE j \in 1..Len(names) : names[j] = o
Run_RetriesOnce(names, o) ==
    IF o = "ok" THEN [j \in 1..Len(names) |-> <<names[j], "ok">>]
    ELSE [j \in 1..IndexOf(names, o) |->
            <<names[j], IF names[j] = o THEN "err" ELSE "ok">>]
         \o <<<<o, "err">>>>

Run(names, o) ==
    IF o = "ok" THEN [j \in 1..Len(names) |-> <<names[j], "ok">>]
    ELSE [j \in 1..IndexOf(names, o) |->
            <<names[j], IF names[j] = o THEN "err" ELSE "ok">>]
Range(f) == {f[j] : j \in 1..Len(f)}

\* reset(), l.64-96 ------------------------------------------------------
\* l.70/75 builders, l.77 request, l.85/88 builders, l.90 setup
ResetCalls == <<"build", "request_notarization", "config", "setup">>
ResetOutcome == {"ok"} \cup Range(ResetCalls)

reset_io(o) == Run(ResetCalls, o)

\* l.92: map_err on the async block's error
reset_result(o) == IF o = "ok" THEN Ok ELSE <<"Setup failed: ", o>>

reset_inner_RequiresEmpty(cur, o) ==
    IF o = "ok" /\ cur = "None" THEN "Setup" ELSE cur

\* the slot after reset(): l.92 returns early on failure, l.94 stores Setup
reset_inner(cur, o) == IF o = "ok" THEN "Setup" ELSE cur

\* connect(), l.98-117 ---------------------------------------------------
\* l.106 to_socket_addrs, l.107-108 first address or "Invalid server
\* address", l.109 TCP connect, l.110 engine connect, l.111 its future
ConnectCalls == <<"to_socket_addrs", "next", "TcpStream::connect",
                  "prover.connect", "fut">>
ConnectOutcome == {"ok"} \cup Range(ConnectCalls)
\* the two calls that turn host and port into an address
Resolution == {"to_socket_addrs", "next"}

connect_io(cur, o) == IF cur # "Setup" THEN <<>> ELSE Run(ConnectCalls, o)

connect_result_ResolveKind(cur, o) ==
    IF cur # "Setup" THEN NoSetup
    ELSE IF o = "ok" THEN Ok
    ELSE IF o \in Resolution THEN <<"Address resolution failed: ", o>>
    ELSE <<"Connect failed: ", o>>

\* l.101 wrong state; l.113 one map_err for every `?` of the async block
connect_result(cur, o) ==
    IF cur # "Setup" THEN NoSetup
    ELSE IF o = "ok" THEN Ok
    ELSE <<"Connect failed: ", o>>

connect_inner_KeepsOnWrongState(cur, o) ==
    IF cur # "Setup" THEN cur
    ELSE IF o = "ok" THEN "Closed" ELSE "None"

connect_inner_KeepsSetup(cur, o) ==
    IF cur # "Setup" THEN "None"
    ELSE IF o = "ok" THEN "Closed" ELSE "Setup"

\* the slot after connect(): l.99 take() empties it whatever it held,
\* l.113 returns early on failure, l.115 stores Closed
connect_inner(cur, o) ==
    IF cur # "Setup" THEN "None"
    ELSE IF o = "ok" THEN "Closed" ELSE "None"

\* start_notarize(), l.119-127 -------------------------------------------
start_notarize_result(cur) == IF cur # "Closed" THEN NoClosed ELSE Ok

start_notarize_inner_AnyPhase(cur) ==
    IF cur = "None" THEN "None" ELSE "Notarize"

start_notarize_inner_Drops(cur) == "None"

\* l.120 take(), l.121 the synchronous, infallible promotion, l.125 store
start_notarize_inner(cur) == IF cur # "Closed" THEN "None" ELSE "Notarize"

\* no .await and no block_on in start_notarize
start_notarize_io(cur) == <<>>

\* finalize_notarize(), l.129-143 ----------------------------------------
\* l.137 the finalize exchange, l.138 bincode::serialize
FinalizeCalls == <<"finalize", "serialize">>
FinalizeOutcome == {"ok"} \cup Range(FinalizeCalls)

finalize_calls_reset_Always(cur, fo) == cur = "Notarize"

\* l.139 `?` returns before l.141 unless the finalize block succeeded
finalize_calls_reset(cur, fo) == cur = "Notarize" /\ fo = "ok"

\* self.reset() is entered in the trace as the call "reset", followed by
\* the calls reset() itself makes
finalize_io(cur, fo, ro) ==
    IF cur # "Notarize" THEN <<>>
    ELSE Run(FinalizeCalls, fo)
         \o (IF finalize_calls_reset(cur, fo)
             THEN <<<<"reset", IF ro = "ok" THEN "ok" ELSE "err">>>>
                  \o reset_io(ro)
             ELSE <<>>)

\* l.132 wrong state, l.139 finalize failure, l.141 reset failure wrapping
\* reset()'s own error
finalize_result(cur, fo, ro) ==
    IF cur # "Notarize" THEN NoNotarize
    ELSE IF fo # "ok" THEN <<"Finalization failed: ", fo>>
    ELSE IF IsErr(reset_result(ro))
         THEN <<"Reset failed after finalize: ">> \o reset_result(ro)
    ELSE Ok

finalize_ret_KeepsBytes(cur, fo, ro) ==
    IF cur = "Notarize" /\ fo = "ok" THEN "attestation" ELSE "none"

\* the Vec<u8> handed to the caller: only l.142 returns it
finalize_ret(cur, fo, ro) ==
    IF finalize_result(cur, fo, ro) = Ok THEN "attestation" ELSE "none"

finalize_inner_KeepsOnFailure(cur, fo, ro) ==
    IF cur = "Notarize" /\ fo = "ok" THEN reset_inner("None", ro)
    ELSE IF cur = "Notarize" THEN "Notarize" ELSE "None"

finalize_inner_NoReset(cur, fo, ro) == "None"

\* the slot after finalize_notarize(): l.130 take() empties it, then
\* reset() (l.141) runs on the emptied slot when the finalize block succeeded
finalize_inner(cur, fo, ro) ==
    IF finalize_calls_reset(cur, fo) THEN reset_inner("None", ro) ELSE "None"

\* one entry of the call log: the method, the slot at entry, the PyResult
\* it returned, the bytes it returned and the trace of the calls it made
Call(op, pre, result, ret, io) ==
    [op |-> op, pre |-> pre, result |-> result, ret |-> ret, io |-> io]

reset ==
    /\ Len(log) < MaxCalls
    /\ \E o \in ResetOutcome :
        /\ inner' = reset_inner(inner, o)
        /\ log' = Append(log, Call("reset", inner, reset_result(o), "none",
                                   reset_io(o)))
    /\ UNCHANGED notaryVars

connect ==
    /\ Len(log) < MaxCalls
    /\ \E o \in ConnectOutcome :
        /\ inner' = connect_inner(inner, o)
        /\ log' = Append(log, Call("connect", inner, connect_result(inner, o),
                                   "none", connect_io(inner, o)))
    /\ UNCHANGED notaryVars

start_notarize ==
    /\ Len(log) < MaxCalls
    /\ inner' = start_notarize_inner(inner)
    /\ log' = Append(log, Call("start_notarize", inner,
                               start_notarize_result(inner), "none",
                               start_notarize_io(inner)))
    /\ UNCHANGED notaryVars

finalize_notarize ==
    /\ Len(log) < MaxCalls
    /\ \E fo \in FinalizeOutcome, ro \in ResetOutcome :
        /\ inner' = finalize_inner(inner, fo, ro)
        /\ log' = Append(log, Call("finalize_notarize", inner,
                                   finalize_result(inner, fo, ro),
                                   finalize_ret(inner, fo, ro),
                                   finalize_io(inner, fo, ro)))
    /\ UNCHANGED notaryVars

\* ------------------------------------------------------------- PyNotary
\* Each start() creates one oneshot channel, one supervising task (the
\* future given to rt.spawn) and, once that task is first polled, one server
\* task (tokio::spawn of run_server).  The i-th start() owns index i.
\*   chan[i]: "none" not created, "open" sender alive and nothing sent,
\*            "sent" value in the channel, "received" value taken by rx,
\*            "tx_dropped" sender dropped without a send,
\*            "recv_err" rx resolved with RecvError after that drop,
\*            "send_failed" send() found the receiver gone
\*   sup[i]:  "none", "spawned" (not polled yet), "select" (parked in
\*            tokio::select!), "done"
\*   srv[i]:  "none", "running", or how run_server ended
Starts == 1..MaxStarts
ServerExit == {"Ok(Ok)", "Ok(Err)", "Err(JoinError)"}

NotaryCall_PropagatesExit(op, id, waited, supAt, srvAt) ==
    [op |-> op,
     result |-> IF srvAt \in {"Ok(Err)", "Err(JoinError)"}
                THEN <<"Notary server error: ", srvAt>> ELSE Ok,
     id |-> id, waited |-> waited, sup_at |-> supAt, srv_at |-> srvAt]

\* one entry of the notary call log; start (l.256) and stop (l.272) return
\* Ok(()) on every path, the task's outcome is printed (l.247-249) or
\* discarded (l.268)
NotaryCall(op, id, waited, supAt, srvAt) ==
    [op |-> op, result |-> Ok, id |-> id, waited |-> waited,
     sup_at |-> supAt, srv_at |-> srvAt]

\* tx.send(()) on channel c, l.262: Err(()) when the receiver is gone
send_NeverDelivers(c) == "send_failed"

send(c) == IF sup[c] = "done" THEN "send_failed" ELSE "sent"

\* the server task when the supervising task ends through the shutdown
\* arm (l.241-244): the JoinHandle `server` goes out of scope, and dropping
\* a tokio JoinHandle detaches the task, it does not cancel it
drop_server_handle(s) == s

start_KeepsFirstHandle ==
    /\ npc = "idle"
    /\ nstarts < MaxStarts
    /\ Len(nlog) < MaxNotaryCalls
    /\ LET i == nstarts + 1 IN
        /\ nstarts' = i
        \* l.220-221: the previous sender, if any, is dropped by the store
        /\ chan' = [c \in Starts |->
                      IF c = i THEN "open"
                      ELSE IF c = shutdown_tx THEN "tx_dropped"
                      ELSE chan[c]]
        /\ shutdown_tx' = i
        \* l.227: rt.spawn
        /\ sup' = [sup EXCEPT ![i] = "spawned"]
        \* l.255: the previous JoinHandle, if any, is dropped (detached)
        /\ server_handle' = IF server_handle # 0 THEN server_handle ELSE i
        /\ nlog' = Append(nlog, NotaryCall("start", i, 0, "none", "none"))
    /\ UNCHANGED <<sends, srv, npc, waiting>>
    /\ UNCHANGED proverVars

\* start(), l.218-257: returns without polling anything
start ==
    /\ npc = "idle"
    /\ nstarts < MaxStarts
    /\ Len(nlog) < MaxNotaryCalls
    /\ LET i == nstarts + 1 IN
        /\ nstarts' = i
        \* l.220-221: the previous sender, if any, is dropped by the store
        /\ chan' = [c \in Starts |->
                      IF c = i THEN "open"
                      ELSE IF c = shutdown_tx THEN "tx_dropped"
                      ELSE chan[c]]
        /\ shutdown_tx' = i
        \* l.227: rt.spawn
        /\ sup' = [sup EXCEPT ![i] = "spawned"]
        \* l.255: the previous JoinHandle, if any, is dropped (detached)
        /\ server_handle' = i
        /\ nlog' = Append(nlog, NotaryCall("start", i, 0, "none", "none"))
    /\ UNCHANGED <<sends, srv, npc, waiting>>
    /\ UNCHANGED proverVars

stop_KeepsSender ==
    /\ npc = "idle"
    /\ Len(nlog) < MaxNotaryCalls
    /\ shutdown_tx' = shutdown_tx
    /\ IF shutdown_tx # 0
       THEN /\ chan' = [chan EXCEPT ![shutdown_tx] = send(shutdown_tx)]
            /\ sends' = [sends EXCEPT ![shutdown_tx] = @ + 1]
       ELSE UNCHANGED <<chan, sends>>
    /\ server_handle' = 0
    /\ IF server_handle # 0
       THEN /\ npc' = "stop_wait"
            /\ waiting' = server_handle
            /\ UNCHANGED nlog
       ELSE /\ nlog' = Append(nlog, NotaryCall("stop", 0, 0, "none", "none"))
            /\ UNCHANGED <<npc, waiting>>
    /\ UNCHANGED <<sup, srv, nstarts>>
    /\ UNCHANGED proverVars

stop_ErrWhenIdle ==
    /\ npc = "idle"
    /\ Len(nlog) < MaxNotaryCalls
    /\ shutdown_tx' = 0
    /\ IF shutdown_tx # 0
       THEN /\ chan' = [chan EXCEPT ![shutdown_tx] = send(shutdown_tx)]
            /\ sends' = [sends EXCEPT ![shutdown_tx] = @ + 1]
       ELSE UNCHANGED <<chan, sends>>
    /\ server_handle' = 0
    /\ IF server_handle # 0
       THEN /\ npc' = "stop_wait"
            /\ waiting' = server_handle
            /\ UNCHANGED nlog
       ELSE /\ nlog' = Append(nlog, [NotaryCall("stop", 0, 0, "none", "none")
                                    EXCEPT !.result = <<"Notary not running">>])
            /\ UNCHANGED <<npc, waiting>>
    /\ UNCHANGED <<sup, srv, nstarts>>
    /\ UNCHANGED proverVars

\* stop(), l.259-267: take and send, take the handle and block on it;
\* l.272 at once when there is no handle
stop ==
    /\ npc = "idle"
    /\ Len(nlog) < MaxNotaryCalls
    /\ shutdown_tx' = 0
    /\ IF shutdown_tx # 0
       THEN /\ chan' = [chan EXCEPT ![shutdown_tx] = send(shutdown_tx)]
            /\ sends' = [sends EXCEPT ![shutdown_tx] = @ + 1]
       ELSE UNCHANGED <<chan, sends>>
    /\ server_handle' = 0
    /\ IF server_handle # 0
       THEN /\ npc' = "stop_wait"
            /\ waiting' = server_handle
            /\ UNCHANGED nlog
       ELSE /\ nlog' = Append(nlog, NotaryCall("stop", 0, 0, "none", "none"))
            /\ UNCHANGED <<npc, waiting>>
    /\ UNCHANGED <<sup, srv, nstarts>>
    /\ UNCHANGED proverVars

\* block_on(handle.await) completes, l.267-272
stop_return ==
    /\ npc = "stop_wait"
    /\ sup[waiting] = "done"
    /\ npc' = "idle"
    /\ waiting' = 0
    /\ nlog' = Append(nlog, NotaryCall("stop", 0, waiting, sup[waiting],
                                       srv[waiting]))
    /\ UNCHANGED <<shutdown_tx, server_handle, chan, sends, sup, srv, nstarts>>
    /\ UNCHANGED proverVars

\* first poll of the supervising task, l.229-240: spawns the server task
\* and reaches the select
sup_poll(i) ==
    /\ sup[i] = "spawned"
    /\ sup' = [sup EXCEPT ![i] = "select"]
    /\ srv' = [srv EXCEPT ![i] = "running"]
    /\ UNCHANGED <<shutdown_tx, server_handle, chan, sends, nstarts, npc,
                   waiting, nlog>>
    /\ UNCHANGED proverVars

sup_shutdown_OnlyOnSignal(i) ==
    /\ sup[i] = "select"
    /\ chan[i] = "sent"
    /\ sup' = [sup EXCEPT ![i] = "done"]
    /\ chan' = [chan EXCEPT ![i] = IF @ = "sent" THEN "received"
                                             ELSE "recv_err"]
    /\ srv' = [srv EXCEPT ![i] = drop_server_handle(@)]
    /\ UNCHANGED <<shutdown_tx, server_handle, sends, nstarts, npc, waiting,
                   nlog>>
    /\ UNCHANGED proverVars

\* shutdown arm, l.241-244: shutdown_rx.await resolved, with the value or
\* with RecvError when the sender was dropped; both are discarded (l.230)
sup_shutdown(i) ==
    /\ sup[i] = "select"
    /\ chan[i] \in {"sent", "tx_dropped"}
    /\ sup' = [sup EXCEPT ![i] = "done"]
    /\ chan' = [chan EXCEPT ![i] = IF @ = "sent" THEN "received"
                                             ELSE "recv_err"]
    /\ srv' = [srv EXCEPT ![i] = drop_server_handle(@)]
    /\ UNCHANGED <<shutdown_tx, server_handle, sends, nstarts, npc, waiting,
                   nlog>>
    /\ UNCHANGED proverVars

\* server arm, l.245-251: the server task's JoinHandle resolved
sup_server(i) ==
    /\ sup[i] = "select"
    /\ srv[i] \in ServerExit
    /\ sup' = [sup EXCEPT ![i] = "done"]
    /\ UNCHANGED <<shutdown_tx, server_handle, chan, sends, srv, nstarts, npc,
                   waiting, nlog>>
    /\ UNCHANGED proverVars

\* run_server returns or panics on its own, l.236
run_server(i) ==
    /\ srv[i] = "running"
    /\ \E e \in ServerExit : srv' = [srv EXCEPT ![i] = e]
    /\ UNCHANGED <<shutdown_tx, server_handle, chan, sends, sup, nstarts, npc,
                   waiting, nlog>>
    /\ UNCHANGED proverVars

\* PyNotary::new, l.210-215
NotaryInit ==
    /\ shutdown_tx = 0
    /\ server_handle = 0
    /\ chan = [i \in Starts |-> "none"]
    /\ sends = [i \in Starts |-> 0]
    /\ sup = [i \in Starts |-> "none"]
    /\ srv = [i \in Starts |-> "none"]
    /\ nstarts = 0
    /\ npc = "idle"
    /\ waiting = 0
    /\ nlog = <<>>

\* PyProver::new, l.55-61, and PyNotary::new
Init ==
    /\ inner = "None"
    /\ log = <<>>
    /\ NotaryInit

ProverNext == reset \/ connect \/ start_notarize \/ finalize_notarize

SpecProver == Init /\ [][ProverNext]_vars

NotaryNext ==
    \/ start
    \/ stop
    \/ stop_return
    \/ \E i \in Starts : sup_poll(i)
    \/ \E i \in Starts : sup_shutdown(i)
    \/ \E i \in Starts : sup_server(i)
    \/ \E i \in Starts : run_server(i)

SpecNotary == Init /\ [][NotaryNext]_vars

\* The tokio runtime (Runtime::new, l.211) polls a spawned task and re-polls
\* it when its oneshot receiver or its JoinHandle is woken, and block_on
\* returns once the awaited handle is ready.  Nothing obliges run_server to
\* end, nor the caller to call start() or stop().
NotaryFairness ==
    /\ WF_vars(stop_return)
    /\ \A i \in Starts : WF_vars(sup_poll(i))
    /\ \A i \in Starts : WF_vars(sup_shutdown(i))
    /\ \A i \in Starts : WF_vars(sup_server(i))

SpecNotaryFair == SpecNotary /\ NotaryFairness

\* ------------------------------------------------- reading the call logs
Calls == 1..Len(log)
\* the slot as call k found it and as call k left it
Before(k) == log[k].pre
After(k) == IF k = Len(log) THEN inner ELSE log[k + 1].pre
\* call k made the call `name` and it failed / made it and it succeeded
Failed(k, name) == <<name, "err">> \in Range(log[k].io)
Succeeded(k, name) == <<name, "ok">> \in Range(log[k].io)
Made(k, name) == Failed(k, name) \/ Succeeded(k, name)
\* the phase each method requires of the slot
Requires(op) ==
    IF op = "connect" THEN "Setup"
    ELSE IF op = "start_notarize" THEN "Closed"
    ELSE "Notarize"
Phased == {"connect", "start_notarize", "finalize_notarize"}
NotaryCalls == 1..Len(nlog)

\* ---------------------------------------------------------------- claims

\* C1: connect, start_notarize or finalize_notarize invoked while the slot
\* is empty or holds another phase than the one it requires returns a
\* wrong-state error and leaves the slot as it was.
C1_WrongStateLeavesSlot ==
    \A k \in Calls :
        (log[k].op \in Phased /\ Before(k) # Requires(log[k].op))
            => /\ log[k].result \in WrongState
               /\ After(k) = Before(k)

\* C2: when a stop() that waited for a task returns, neither the
\* supervising task nor the server task it spawned is still running.
C2_StopLeavesNothingRunning ==
    \A k \in NotaryCalls :
        (nlog[k].op = "stop" /\ nlog[k].waited # 0)
            => /\ nlog[k].sup_at = "done"
               /\ nlog[k].srv_at # "running"

\* C3: whatever the slot holds when reset is called, if the coordinator
\* request or the setup negotiation fails, the call returns a setup error
\* and the slot is empty afterwards.
C3_ResetFailureEmptiesSlot ==
    \A k \in Calls :
        (log[k].op = "reset"
         /\ (Failed(k, "request_notarization") \/ Failed(k, "setup")))
            => /\ ErrorKind(log[k].result) = "Setup failed: "
               /\ After(k) = "None"

\* C4: after reset, connect, start_notarize and finalize_notarize each
\* succeeded in that order, the slot holds a Setup session, finalize has
\* returned the attestation bytes, and a following connect is not rejected
\* as wrong state.
FullSession(k) ==
    /\ k >= 4
    /\ log[k - 3].op = "reset" /\ log[k - 3].result = Ok
    /\ log[k - 2].op = "connect" /\ log[k - 2].result = Ok
    /\ log[k - 1].op = "start_notarize" /\ log[k - 1].result = Ok
    /\ log[k].op = "finalize_notarize"
    /\ Succeeded(k, "finalize") /\ Succeeded(k, "serialize")
    /\ Succeeded(k, "reset")

C4_SessionRecycled ==
    \A k \in Calls :
        FullSession(k)
            => /\ After(k) = "Setup"
               /\ log[k].result = Ok
               /\ log[k].ret = "attestation"
               /\ (k < Len(log) /\ log[k + 1].op = "connect"
                      => log[k + 1].result \notin WrongState)

C4_Witness ==
    \E k \in Calls :
        FullSession(k) /\ k < Len(log) /\ log[k + 1].op = "connect"

\* C5: finalize_notarize on a Notarize session whose finalize exchange or
\* serialization fails leaves the slot empty, does not call reset, and a
\* connect issued next returns the wrong-state error.
FinalizeFailed(k) ==
    /\ log[k].op = "finalize_notarize"
    /\ Before(k) = "Notarize"
    /\ (Failed(k, "finalize") \/ Failed(k, "serialize"))

C5_FinalizeFailureNoReset ==
    \A k \in Calls :
        FinalizeFailed(k)
            => /\ After(k) = "None"
               /\ ~Made(k, "reset")
               /\ (k < Len(log) /\ log[k + 1].op = "connect"
                      => log[k + 1].result = NoSetup)

C5_Witness ==
    \E k \in Calls :
        FinalizeFailed(k) /\ k < Len(log) /\ log[k + 1].op = "connect"

\* C6: when the finalize exchange succeeds but the automatic reset fails,
\* finalize_notarize returns the reset error, which is another error than
\* the finalize failure, returns no attestation bytes, and leaves the slot
\* empty.
ResetAfterFinalizeFailed(k) ==
    /\ log[k].op = "finalize_notarize"
    /\ Succeeded(k, "finalize") /\ Succeeded(k, "serialize")
    /\ Failed(k, "reset")

C6_ResetFailureAfterFinalize ==
    \A k \in Calls :
        ResetAfterFinalizeFailed(k)
            => /\ ErrorKind(log[k].result) = "Reset failed after finalize: "
               /\ ErrorKind(log[k].result) # "Finalization failed: "
               /\ log[k].ret = "none"
               /\ After(k) = "None"

C6_Witness == \E k \in Calls : ResetAfterFinalizeFailed(k)

\* C7: connect on a Setup session leaves Closed in the slot when the
\* resolution, the TCP connection and the engine exchange all succeed, and
\* leaves the slot empty when one of them fails; Setup is never left.
ConnectOnSetup(k) == log[k].op = "connect" /\ Before(k) = "Setup"
ConnectAllOk(k) == \A j \in 1..Len(ConnectCalls) : Succeeded(k, ConnectCalls[j])
ConnectSomeFailed(k) ==
    \E j \in 1..Len(ConnectCalls) : Failed(k, ConnectCalls[j])

C7_ConnectClosedOrEmpty ==
    \A k \in Calls :
        ConnectOnSetup(k)
            => /\ ConnectAllOk(k) => After(k) = "Closed"
               /\ ConnectSomeFailed(k) => After(k) = "None"
               /\ After(k) # "Setup"

C7_Witness ==
    /\ \E k \in Calls : ConnectOnSetup(k) /\ ConnectAllOk(k)
    /\ \E k \in Calls : ConnectOnSetup(k) /\ ConnectSomeFailed(k)

\* C8 as claimed: a connect on a Setup session that fails to resolve the
\* address returns another error kind than a connect whose TCP connection
\* or engine exchange fails.
ResolveFailed(k) ==
    ConnectOnSetup(k) /\ \E n \in Resolution : Failed(k, n)
TransportFailed(k) ==
    ConnectOnSetup(k)
    /\ \E n \in Range(ConnectCalls) \ Resolution : Failed(k, n)

C9_ResetFromAnyState ==
    \A k \in Calls :
        log[k].op = "reset"
            => /\ log[k].result \notin WrongState
               /\ (Succeeded(k, "request_notarization")
                   /\ Succeeded(k, "setup"))
                      => (log[k].result = Ok /\ After(k) = "Setup")

C9_Witness ==
    \E k \in Calls :
        /\ log[k].op = "reset"
        /\ Before(k) = "Notarize"
        /\ Succeeded(k, "setup")

\* C10: start_notarize on a Closed session succeeds, leaves a Notarize
\* session in the slot and calls nothing of the engine or the network; the
\* wrong-state error is the only error start_notarize returns.
C10_StartNotarizePromotes ==
    \A k \in Calls :
        log[k].op = "start_notarize"
            => /\ log[k].io = <<>>
               /\ log[k].result \in {Ok, NoClosed}
               /\ Before(k) = "Closed"
                      => (log[k].result = Ok /\ After(k) = "Notarize")

C10_Witness ==
    \E k \in Calls : log[k].op = "start_notarize" /\ Before(k) = "Closed"

\* C11: under fair scheduling of the background tasks every stop() that
\* blocks on a task handle returns: whether the supervising task has not
\* been polled yet, is parked in its select, or has already ended because
\* the server completed on its own.
C11_StopReturns == (npc = "stop_wait") ~> (npc = "idle")

\* a stop() that had a task to wait for has returned
C11_Witness ==
    \E k \in NotaryCalls : nlog[k].op = "stop" /\ nlog[k].waited # 0

\* C12: stop() with no start() since construction or since the last stop()
\* returns Ok, sends no shutdown signal, waits on no task and leaves the
\* controller as it was, without shutdown sender and without task handle.
NoStartSince == nlog = <<>> \/ nlog[Len(nlog)].op = "stop"

C12_IdleStopIsNoOp ==
    [][(stop /\ NoStartSince)
        => /\ shutdown_tx = 0 /\ server_handle = 0
           /\ nlog' = Append(nlog, NotaryCall("stop", 0, 0, "none", "none"))
           /\ nlog'[Len(nlog')].result = Ok
           /\ UNCHANGED <<shutdown_tx, server_handle, chan, sends, sup, srv,
                          nstarts, npc, waiting>>]_vars

C12_Witness ==
    \E k \in NotaryCalls :
        /\ nlog[k].op = "stop"
        /\ nlog[k].waited = 0
        /\ (k = 1 \/ nlog[k - 1].op = "stop")

\* C13: start() returns Ok at once, before the supervising task is polled,
\* the server task exists or the shutdown signal is sent; and no start()
\* or stop() returns an error, however the server task ended.
C13_ServiceOutcomeNotPropagated ==
    /\ [](\A k \in NotaryCalls : nlog[k].result = Ok)
    /\ [][start
           => /\ nlog' = Append(nlog, NotaryCall("start", nstarts', 0,
                                                 "none", "none"))
              /\ npc' = "idle"
              /\ sup'[nstarts'] = "spawned"
              /\ srv'[nstarts'] = "none"
              /\ chan'[nstarts'] = "open"]_vars

\* a stop() has returned after the server ended with an error or a panic
C13_Witness ==
    \E k \in NotaryCalls :
        /\ nlog[k].op = "stop"
        /\ nlog[k].srv_at \in {"Ok(Err)", "Err(JoinError)"}

\* C14: between calls the slot is empty or holds one of the three phases,
\* and each phase enters the slot only through the call that produces it:
\* Closed by a successful connect that consumed Setup, Notarize by a
\* start_notarize that consumed Closed, Setup by a successful reset (called
\* directly or by finalize_notarize).  A phase found in the slot after any
\* other call is the session the call found there and did not touch.
Kept(k) ==
    Before(k) = After(k) /\ log[k].op = "reset" /\ IsErr(log[k].result)
ProducedBy(k, phase) ==
    IF phase = "Closed"
        THEN log[k].op = "connect" /\ Before(k) = "Setup" /\ log[k].result = Ok
    ELSE IF phase = "Notarize"
        THEN /\ log[k].op = "start_notarize"
             /\ Before(k) = "Closed" /\ log[k].result = Ok
    ELSE \/ log[k].op = "reset" /\ log[k].result = Ok
         \/ log[k].op = "finalize_notarize" /\ Succeeded(k, "reset")

C14_PhaseProvenance ==
    /\ inner \in Slot
    /\ \A k \in Calls :
        /\ Before(k) \in Slot
        /\ After(k) \in ProverState => (ProducedBy(k, After(k)) \/ Kept(k))

C14_Witness ==
    \E k \in Calls :
        /\ k >= 3 /\ k < Len(log)
        /\ After(k - 2) = "Setup" /\ After(k - 1) = "Closed"
        /\ After(k) = "Notarize" /\ After(k + 1) = "None"

\* C15: once a connect or finalize_notarize has failed in the engine or the
\* network the slot is empty, and every connect, start_notarize and
\* finalize_notarize called before a reset has succeeded returns the
\* wrong-state error without calling the engine.
EngineFailed(k) ==
    /\ log[k].op \in {"connect", "finalize_notarize"}
    /\ \E j \in 1..Len(log[k].io) : log[k].io[j][2] = "err"
ResetOkBetween(k, m) ==
    \E j \in (k + 1)..(m - 1) : log[j].op = "reset" /\ log[j].result = Ok

C15_NoRetryUntilReset ==
    \A k \in Calls :
        EngineFailed(k)
            => /\ After(k) = "None"
               /\ \A m \in Calls :
                    (k < m /\ log[m].op \in Phased /\ ~ResetOkBetween(k, m))
                        => (log[m].result \in WrongState /\ log[m].io = <<>>)

C15_Witness ==
    \E k, m \in Calls :
        /\ EngineFailed(k)
        /\ m >= k + 2
        /\ log[k + 1].op = "reset" /\ IsErr(log[k + 1].result)
        /\ log[m].op \in Phased
        /\ ~ResetOkBetween(k, m)

\* C16: within one call no engine or network call is made twice and nothing
\* is called after a call has failed; reset is entered from another method
\* only by finalize_notarize, once, and exactly when its finalize exchange
\* and serialization have succeeded.
NoRepeat(io) ==
    \A i, j \in 1..Len(io) : i # j => io[i][1] # io[j][1]
StopsAtFailure(io) ==
    \A j \in 1..Len(io) :
        (io[j][2] = "err" /\ io[j][1] # "reset") => j = Len(io)

C16_AtMostOnceOneFollowUp ==
    \A k \in Calls :
        /\ NoRepeat(log[k].io)
        /\ StopsAtFailure(log[k].io)
        /\ Made(k, "reset")
              <=> (log[k].op = "finalize_notarize"
                   /\ Succeeded(k, "finalize") /\ Succeeded(k, "serialize"))
        /\ log[k].op # "reset"
              => \A n \in Range(ResetCalls) :
                    Made(k, n) => Made(k, "reset")

\* a finalize_notarize whose follow-up reset was made and failed in setup,
\* in a run where a reset called directly failed as well
C16_Witness ==
    /\ \E k \in Calls : Failed(k, "reset") /\ Failed(k, "setup")
    /\ \E k \in Calls : log[k].op = "reset" /\ IsErr(log[k].result)

\* C19: whenever connect, start_notarize or finalize_notarize returns an
\* error, of whatever kind, the slot is empty afterwards.
C19_ErrorLeavesSlotEmpty ==
    \A k \in Calls :
        (log[k].op \in Phased /\ IsErr(log[k].result)) => After(k) = "None"

\* a wrong-state error returned while a session was held
C19_Witness ==
    \E k \in Calls :
        /\ log[k].op \in Phased
        /\ log[k].result \in WrongState
        /\ Before(k) # "None"

\* C17: no channel is ever sent on twice.  stop() takes the sender out of
\* the controller and sends on it only if there was one, so a stop() that
\* finds none sends nothing and waits on nothing; start() installs a channel
\* never used before, and the signal stop() sends goes to the channel of the
\* very task it then waits for, which is the task spawned by the same
\* start().
C17_OneSendPerChannel ==
    /\ [](\A i \in Starts :
            /\ sends[i] <= 1
            /\ sends[i] = 1 <=> chan[i] \in {"sent", "received", "send_failed"}
            /\ chan[i] = "received" => sup[i] = "done")
    /\ [](shutdown_tx = server_handle
          /\ (shutdown_tx # 0 => chan[shutdown_tx] = "open"))
    /\ [][stop
           => /\ shutdown_tx' = 0
              /\ shutdown_tx = 0
                    => (sends' = sends /\ chan' = chan /\ npc' = "idle")
              /\ shutdown_tx # 0
                    => /\ sends'[shutdown_tx] = 1
                       /\ waiting' = shutdown_tx
                       /\ \A c \in Starts \ {shutdown_tx} :
                            sends'[c] = sends[c]]_vars
    /\ [][start
           => /\ chan[nstarts'] = "none" /\ chan'[nstarts'] = "open"
              /\ sends'[nstarts'] = 0
              /\ shutdown_tx' = nstarts' /\ server_handle' = nstarts']_vars

\* a stop() that sent and waited, followed by a second stop()
C17_Witness ==
    \E k \in NotaryCalls :
        /\ k < Len(nlog)
        /\ nlog[k].op = "stop" /\ nlog[k].waited # 0
        /\ sends[nlog[k].waited] = 1
        /\ nlog[k + 1].op = "stop"

\* C18: when start() is called twice with no stop() in between, the first
\* start's channel is never sent on and its task is never waited for by any
\* stop(); the stop() that follows sends on the second channel and waits
\* for the second task.
TwoStarts(k) ==
    k < Len(nlog) /\ nlog[k].op = "start" /\ nlog[k + 1].op = "start"

C18_LastStartWins ==
    \A k \in NotaryCalls :
        TwoStarts(k)
            => /\ sends[nlog[k].id] = 0
               /\ chan[nlog[k].id] \in {"tx_dropped", "recv_err"}
               /\ waiting # nlog[k].id
               /\ \A m \in NotaryCalls :
                    nlog[m].op = "stop" => nlog[m].waited # nlog[k].id
               /\ (Len(nlog) = k + 1 /\ npc = "stop_wait")
                     => (waiting = nlog[k + 1].id /\ sends[waiting] = 1)
               /\ (Len(nlog) >= k + 2 /\ nlog[k + 2].op = "stop")
                     => /\ nlog[k + 2].waited = nlog[k + 1].id
                        /\ sends[nlog[k + 1].id] = 1

C18_Witness ==
    \E k \in NotaryCalls :
        TwoStarts(k) /\ Len(nlog) >= k + 2 /\ nlog[k + 2].op = "stop"

\* C20 as claimed: once a second start() has dropped the first channel's
\* sender, the first supervising task ends through its shutdown arm.  A
\* task that has ended otherwise can no longer take that arm, so the claim
\* requires every ended task whose sender was dropped to have seen the
\* RecvError.
Overwritten(i) == chan[i] \in {"tx_dropped", "recv_err"}

C20_EndsThroughShutdownArm ==
    \A i \in Starts :
        (Overwritten(i) /\ sup[i] = "done") => chan[i] = "recv_err"

\* C20 as amended: once a second start() has dropped the first channel's
\* sender, under fair scheduling the first supervising task terminates
\* although nothing was ever sent to it: through its shutdown arm, or
\* through its server arm when its server task completed on its own.
C20_OverwrittenTaskTerminates ==
    /\ \A i \in Starts : (chan[i] = "tx_dropped") ~> (sup[i] = "done")
    /\ [](\A i \in Starts :
            Overwritten(i)
                => /\ sends[i] = 0
                   /\ sup[i] = "done"
                         => (chan[i] = "recv_err" \/ srv[i] \in ServerExit))

\* an overwritten task has ended through its shutdown arm with its server
\* task still running
C20_Witness ==
    \E i \in Starts :
        chan[i] = "recv_err" /\ sup[i] = "done" /\ srv[i] = "running"
====
